---- MODULE Spec2Model ----
(***************************************************************************)
(* The "code-layering" lint rule of monorepo-code-layering.                *)
(*                                                                         *)
(* A JavaScript string is a sequence of one-character strings, so that     *)
(* includes, replace, split and path.normalize are computed and not        *)
(* assumed.  undefined and null are the one-element sequences              *)
(* <<"undefined">> and <<"null">>, which no string equals.  A directory is *)
(* the sequence of its path segments below "/", each segment a string.     *)
(***************************************************************************)
EXTENDS Naturals, Sequences, FiniteSets

VARIABLES
  fs,          \* the project tree: directory -> state of its package.json
  loaded,      \* module load: "no", "yes", or "threw"
  packageMap,  \* part_000:12, directory -> declared name, as a set of pairs
  context,     \* the host's context of the rule instance: filename, options
  rule,        \* the closure made by create: currentPackageName, allow, restrict
  node,        \* node.source.value of the ImportDeclaration being visited
  reports,     \* what that visit passed to context.report
  visit        \* how that visit ended: "none", "returned" or "threw"

vars == <<fs, loaded, packageMap, context, rule, node, reports, visit>>

\* ---------------------------------------------------------------- bounds

\* Longest import path drawn, in segments between "/".
MaxSegs == 3

\* ---------------------------------------------------------------- values

JsUndefined == <<"undefined">>
JsNull == <<"null">>

\* The name in the root manifest (utils.js:4-7); "r" here.
rootPackageName == <<"r">>

\* The template literal `@${rootPackageName}/` of utils.js:78.
ScopePrefix == <<"@">> \o rootPackageName \o <<"/">>

Star == <<"*">>
DotDot == <<".", ".">>
Dot == <<".">>

\* ---------------------------------------------------------------- strings

\* s.startsWith(t) from position i (1-based).
MatchAt(s, t, i) ==
  /\ i + Len(t) - 1 <= Len(s)
  /\ \A k \in 1..Len(t) : s[i + k - 1] = t[k]

\* String.prototype.includes
Includes(s, t) == \E i \in 1..(Len(s) + 1) : MatchAt(s, t, i)

\* String.prototype.indexOf, 1-based, 0 when absent.
IndexOf(s, t) ==
  IF Includes(s, t)
    THEN CHOOSE i \in 1..(Len(s) + 1) :
           /\ MatchAt(s, t, i)
           /\ \A j \in 1..(i - 1) : ~MatchAt(s, t, j)
    ELSE 0

\* String.prototype.replace(t, "") with a string pattern: the first
\* occurrence of t, wherever it is, is removed.
ReplaceFirst(s, t) ==
  LET i == IndexOf(s, t) IN
    IF i = 0 THEN s
    ELSE SubSeq(s, 1, i - 1) \o SubSeq(s, i + Len(t), Len(s))

\* String.prototype.split("/"): the segments between the separators.
RECURSIVE Split(_)
Split(s) ==
  LET i == IndexOf(s, <<"/">>) IN
    IF i = 0 THEN <<s>>
    ELSE <<SubSeq(s, 1, i - 1)>> \o Split(SubSeq(s, i + 1, Len(s)))

\* Array.prototype.join("/")
RECURSIVE Join(_)
Join(segs) ==
  IF Len(segs) = 0 THEN <<>>
  ELSE IF Len(segs) = 1 THEN segs[1]
  ELSE segs[1] \o <<"/">> \o Join(Tail(segs))

\* normalizeString of node's path module: drops "" and "." segments, and
\* lets ".." remove the segment before it; a relative path keeps the ".."
\* that climb above its start.
RECURSIVE NormalizeSegs(_, _, _)
NormalizeSegs(segs, acc, allowAboveRoot) ==
  IF Len(segs) = 0 THEN acc
  ELSE
    LET h == Head(segs)
        t == Tail(segs)
    IN
      IF h = <<>> \/ h = Dot THEN NormalizeSegs(t, acc, allowAboveRoot)
      ELSE IF h = DotDot THEN
        IF Len(acc) > 0 /\ acc[Len(acc)] # DotDot
          THEN NormalizeSegs(t, SubSeq(acc, 1, Len(acc) - 1), allowAboveRoot)
        ELSE IF allowAboveRoot
          THEN NormalizeSegs(t, Append(acc, DotDot), allowAboveRoot)
        ELSE NormalizeSegs(t, acc, allowAboveRoot)
      ELSE NormalizeSegs(t, Append(acc, h), allowAboveRoot)

\* path.normalize (posix)
Normalize(p) ==
  IF Len(p) = 0 THEN Dot
  ELSE
    LET isAbsolute == p[1] = "/"
        trailingSeparator == p[Len(p)] = "/"
        body == Join(NormalizeSegs(Split(p), <<>>, ~isAbsolute))
    IN
      IF Len(body) = 0
        THEN IF isAbsolute THEN <<"/">>
             ELSE IF trailingSeparator THEN <<".", "/">> ELSE Dot
      ELSE (IF isAbsolute THEN <<"/">> ELSE <<>>)
           \o body
           \o (IF trailingSeparator THEN <<"/">> ELSE <<>>)

\* ---------------------------------------------------------------- file system

W == <<"w">>
A == <<"a">>
B == <<"b">>
S == <<"s">>
M == <<"m">>
T == <<"t">>
SourceFile == <<"f">>
NodeModules == <<"node_modules">>

\* process.cwd(), the project root.
Cwd == <<W>>

DirA == <<W, A>>
DirB == <<W, B>>
DirAS == <<W, A, S>>
DirANM == <<W, A, NodeModules>>
DirANMM == <<W, A, NodeModules, M>>
DirT == <<T>>

\* The directories of the tree; <<>> is "/".
Dirs == {<<>>, Cwd, DirA, DirB, DirAS, DirANM, DirANMM, DirT}

\* What findPackageJson returns when it finds nothing.
NullDir == <<JsNull>>

NoManifest == [kind |-> "none", name |-> JsUndefined]
BadManifest == [kind |-> "bad", name |-> JsUndefined]
Manifest(n) == [kind |-> "ok", name |-> n]

NameA == ScopePrefix \o A
NameB == ScopePrefix \o B

ManifestAt(f, d) == IF d \in DOMAIN f THEN f[d] ELSE NoManifest

\* path.dirname of an absolute path
Dirname(p) == IF Len(p) = 0 THEN p ELSE SubSeq(p, 1, Len(p) - 1)

\* The project trees drawn.  The root manifest is always readable: the
\* process does not start without it (utils.js:4).  node_modules itself
\* and "/" hold no manifest.
Tree(a, b, as, anmm, t) ==
  [d \in Dirs |->
     IF d = Cwd THEN Manifest(rootPackageName)
     ELSE IF d = DirA THEN a
     ELSE IF d = DirB THEN b
     ELSE IF d = DirAS THEN as
     ELSE IF d = DirANMM THEN anmm
     ELSE IF d = DirT THEN t
     ELSE NoManifest]

AllTrees ==
  {Tree(a, b, as, anmm, t) :
     a \in {NoManifest, BadManifest, Manifest(NameA)},
     b \in {NoManifest, BadManifest, Manifest(NameB), Manifest(JsUndefined)},
     as \in {NoManifest, Manifest(A)},
     anmm \in {NoManifest, BadManifest, Manifest(B)},
     t \in {NoManifest, Manifest(T)}}

\* The trees under which imports are evaluated.
EvalTrees ==
  {Tree(Manifest(NameA), Manifest(NameB), NoManifest, Manifest(B), NoManifest),
   Tree(Manifest(NameA), NoManifest, Manifest(A), NoManifest, NoManifest)}

\* The files the host lints: one in each directory but "/" and node_modules.
Filenames == {Append(d, SourceFile) : d \in Dirs \ {<<>>, DirANM}}

\* ---------------------------------------------------------------- utils.js

\* traverse with the require wrapped in a try/catch that skips the manifest.
RECURSIVE traverseSkippingBad(_, _)
traverseSkippingBad(f, dir) ==
  LET kids == {d \in Dirs : /\ Len(d) = Len(dir) + 1
                            /\ SubSeq(d, 1, Len(dir)) = dir
                            /\ d[Len(d)] # NodeModules}
      below == {traverseSkippingBad(f, k) : k \in kids}
      own == ManifestAt(f, dir)
  IN [threw |-> FALSE,
      map |-> (IF own.kind = "ok" THEN {<<dir, own.name>>} ELSE {})
              \cup UNION {r.map : r \in below}]

\* traverse(dir) of findInternalPackageNames: threw is whether require threw
\* on a manifest met in the walk, map is what packageMap.set recorded.
RECURSIVE traverse(_, _)
traverse(f, dir) ==
  LET kids == {d \in Dirs : /\ Len(d) = Len(dir) + 1
                            /\ SubSeq(d, 1, Len(dir)) = dir
                            /\ d[Len(d)] # NodeModules}
      below == {traverse(f, k) : k \in kids}
      own == ManifestAt(f, dir)
  IN [threw |-> own.kind = "bad" \/ \E r \in below : r.threw,
      map |-> (IF own.kind = "ok" THEN {<<dir, own.name>>} ELSE {})
              \cup UNION {r.map : r \in below}]

findInternalPackageNames(f) == traverse(f, Cwd)

\* Map.prototype.get
MapGet(map, key) ==
  IF \E p \in map : p[1] = key
    THEN (CHOOSE p \in map : p[1] = key)[2]
    ELSE JsUndefined

\* The loop of findPackageJson, from currentDir upward.
RECURSIVE WalkUp(_, _)
WalkUp(f, currentDir) ==
  IF currentDir = <<>> THEN NullDir
  ELSE IF ManifestAt(f, currentDir).kind # "none" THEN currentDir
  ELSE WalkUp(f, Dirname(currentDir))

\* findPackageJson that starts one directory too high.
findPackageJsonFromParent(f, filePath) == WalkUp(f, Dirname(Dirname(filePath)))

findPackageJson(f, filePath) == WalkUp(f, Dirname(filePath))

isRelativeImport(importPath) == Includes(importPath, DotDot)

\* getShortPackageName throws a TypeError on undefined or null.
getShortPackageNameThrows(currentPackageName) ==
  currentPackageName \in {JsUndefined, JsNull}

getShortPackageName(currentPackageName) ==
  ReplaceFirst(currentPackageName, ScopePrefix)

getPackageNameFromPath(f, importPath) ==
  LET pathSegments == Split(Normalize(importPath))
      found == SelectSeq(pathSegments,
                         LAMBDA segment : /\ segment # DotDot
                                          /\ segment # Dot
                                          /\ segment # <<>>)
  IN IF Len(found) = 0 THEN JsNull
     ELSE LET m == ManifestAt(f, Append(Cwd, found[1]))
          IN IF m.kind = "ok" /\ m.name # JsUndefined /\ m.name # <<>>
               THEN m.name
               ELSE JsNull

\* A property of an options entry that may be left out: <<>> when it is,
\* <<list>> when it is given.
Omitted == <<>>
Given(list) == <<list>>

\* findConfigByPackageName whose fallback allows nothing.
findConfigDefaultDeny(options, currentPackageName) ==
  LET shortPackageName == getShortPackageName(currentPackageName)
      hits == SelectSeq(options, LAMBDA e : shortPackageName = e.target)
  IN IF Len(hits) > 0 THEN hits[1]
     ELSE [target |-> shortPackageName,
           allow |-> Given(<<>>),
           restrict |-> Given(<<>>)]

findConfigByPackageName(options, currentPackageName) ==
  LET shortPackageName == getShortPackageName(currentPackageName)
      hits == SelectSeq(options, LAMBDA e : shortPackageName = e.target)
  IN IF Len(hits) > 0 THEN hits[1]
     ELSE [target |-> shortPackageName,
           allow |-> Given(<<Star>>),
           restrict |-> Given(<<>>)]

\* The message of a context.report call: which of the three texts it is,
\* and the two names the text quotes.
Report(kind, first, second) ==
  [kind |-> kind, first |-> first, second |-> second]

\* ---------------------------------------------------------------- the rule

\* What a handler did: the reports it made, and whether it threw.
Done(made) == [threw |-> FALSE, reports |-> made]
Threw == [threw |-> TRUE, reports |-> <<>>]

\* handleRelativeImport that lets an unresolved import pass.
handleRelativeImportNullPasses(f, currentPackageName, importPath) ==
  LET importedPackageName == getPackageNameFromPath(f, importPath)
  IN IF importedPackageName # JsNull /\ importedPackageName # currentPackageName
       THEN Done(<<Report("relative", JsUndefined, JsUndefined)>>)
       ELSE Done(<<>>)

handleRelativeImport(f, currentPackageName, importPath) ==
  LET importedPackageName == getPackageNameFromPath(f, importPath)
  IN IF importedPackageName # currentPackageName
       THEN Done(<<Report("relative", JsUndefined, JsUndefined)>>)
       ELSE Done(<<>>)

\* handleAbsoluteImport with the restrict loop in front of the allow check.
handleAbsoluteImportRestrictFirst(currentPackageName, allow, restrict, importPath) ==
  LET shortImportPackageName == getShortPackageName(importPath)
      shortCurrentPackageName == getShortPackageName(currentPackageName)
  IN IF restrict = Omitted THEN Threw
     ELSE IF \E i \in 1..Len(restrict[1]) :
               restrict[1][i] = shortImportPackageName
       THEN Done(<<Report("restrict", shortCurrentPackageName,
                          shortImportPackageName)>>)
     ELSE IF allow = Omitted THEN Threw
     ELSE IF ~\E i \in 1..Len(allow[1]) :
                allow[1][i] = Star \/ allow[1][i] = shortImportPackageName
       THEN Done(<<Report("allow", shortImportPackageName,
                          shortCurrentPackageName)>>)
     ELSE Done(<<>>)

\* allow.some(...) throws when allow is undefined, and so does the for-of
\* over restrict once the allow check has passed.
handleAbsoluteImport(currentPackageName, allow, restrict, importPath) ==
  LET shortImportPackageName == getShortPackageName(importPath)
      shortCurrentPackageName == getShortPackageName(currentPackageName)
  IN IF allow = Omitted THEN Threw
     ELSE
       LET allowed == \E i \in 1..Len(allow[1]) :
                        allow[1][i] = Star \/ allow[1][i] = shortImportPackageName
       IN IF ~allowed
            THEN Done(<<Report("allow", shortImportPackageName,
                               shortCurrentPackageName)>>)
          ELSE IF restrict = Omitted THEN Threw
          ELSE IF \E i \in 1..Len(restrict[1]) :
                    restrict[1][i] = shortImportPackageName
            THEN Done(<<Report("restrict", shortCurrentPackageName,
                               shortImportPackageName)>>)
          ELSE Done(<<>>)

\* The visitor without the root-name filter of part_000:48.
EvaluateWithoutFilter(f, r, importPath) ==
  IF isRelativeImport(importPath)
    THEN handleRelativeImport(f, r.currentPackageName, importPath)
  ELSE handleAbsoluteImport(r.currentPackageName, r.allow, r.restrict,
                            importPath)

\* The body of the ImportDeclaration visitor.
Evaluate(f, r, importPath) ==
  IF ~Includes(importPath, rootPackageName) THEN Done(<<>>)
  ELSE IF isRelativeImport(importPath)
    THEN handleRelativeImport(f, r.currentPackageName, importPath)
  ELSE handleAbsoluteImport(r.currentPackageName, r.allow, r.restrict,
                            importPath)

\* ---------------------------------------------------------------- inputs

SegTokens == {<<"@">> \o rootPackageName, DotDot, Dot, A, B, <<>>}

\* The import paths drawn: up to MaxSegs of the tokens, joined by "/".
ImportPaths ==
  {Join(segs) : segs \in UNION {[1..n -> SegTokens] : n \in 1..MaxSegs}}

AllowChoices ==
  {Omitted, Given(<<>>), Given(<<Star>>), Given(<<A>>), Given(<<B, Star>>)}

RestrictChoices ==
  {Omitted, Given(<<>>), Given(<<A>>), Given(<<B, A, A>>)}

Entries(target) ==
  [target : {target}, allow : AllowChoices, restrict : RestrictChoices]

\* The options drawn (schema: at least one entry, each with a target):
\* one entry for "a", and two entries with the entry for "a" behind one for
\* "b" or in front of a second one for "a".
OptionLists ==
  {<<e>> : e \in Entries(A)}
  \cup {<<[target |-> B, allow |-> Given(<<>>), restrict |-> Given(<<>>)]>>}
  \cup {<<[target |-> B, allow |-> Given(<<>>), restrict |-> Omitted], e>> :
          e \in {x \in Entries(A) : x.allow = Given(<<A>>)}}
  \cup {<<e, [target |-> A, allow |-> Given(<<>>), restrict |-> Given(<<B>>)]>> :
          e \in {x \in Entries(A) : x.restrict = Given(<<A>>)}}

NoContext == [filename |-> JsUndefined, options |-> <<>>]
NoRule ==
  [state |-> "none", currentPackageName |-> JsUndefined,
   allow |-> Omitted, restrict |-> Omitted]

\* ---------------------------------------------------------------- actions

InitWith(trees) ==
  /\ fs \in trees
  /\ loaded = "no"
  /\ packageMap = {}
  /\ context = NoContext
  /\ rule = NoRule
  /\ node = JsUndefined
  /\ reports = <<>>
  /\ visit = "none"

Init == InitWith(EvalTrees)

InitRegistry == InitWith(AllTrees)

\* Loading the plugin module runs findInternalPackageNames (part_000:12);
\* when require throws in the walk, the load throws and no rule exists.
LoadModule ==
  /\ loaded = "no"
  /\ LET built == findInternalPackageNames(fs)
     IN IF built.threw
          THEN /\ loaded' = "threw"
               /\ packageMap' = {}
          ELSE /\ loaded' = "yes"
               /\ packageMap' = built.map
  /\ UNCHANGED <<fs, context, rule, node, reports, visit>>

\* create(context) for the linted file.  getShortPackageName throws in
\* findConfigByPackageName when the map has no name for the file.  A
\* behaviour lints one file: create reads only fs and packageMap, which
\* nothing writes after the load.
Create(filename, options) ==
  /\ loaded = "yes"
  /\ rule.state = "none"
  /\ context' = [filename |-> filename, options |-> options]
  /\ LET packagePath == findPackageJson(fs, filename)
         currentPackageName == MapGet(packageMap, packagePath)
     IN IF getShortPackageNameThrows(currentPackageName)
          THEN rule' = [NoRule EXCEPT !.state = "threw"]
          ELSE LET config == findConfigByPackageName(options, currentPackageName)
               IN rule' = [state |-> "created",
                           currentPackageName |-> currentPackageName,
                           allow |-> config.allow,
                           restrict |-> config.restrict]
  /\ node' = JsUndefined
  /\ reports' = <<>>
  /\ visit' = "none"
  /\ UNCHANGED <<fs, loaded, packageMap>>

\* The ImportDeclaration visitor on an import statement of the file.  A
\* behaviour follows one statement: the visitor reads only fs and the
\* closure of create, and writes neither.
ImportDeclaration(importPath) ==
  /\ rule.state = "created"
  /\ visit = "none"
  /\ node' = importPath
  /\ LET result == Evaluate(fs, rule, importPath)
     IN /\ reports' = result.reports
        /\ visit' = IF result.threw THEN "threw" ELSE "returned"
  /\ UNCHANGED <<fs, loaded, packageMap, context, rule>>

\* The guards are repeated in front of the quantifiers so that they are
\* decided once for a state and not once for each input.
CreateAny ==
  /\ loaded = "yes"
  /\ rule.state = "none"
  /\ \E filename \in Filenames, options \in OptionLists :
       Create(filename, options)

ImportAny ==
  /\ rule.state = "created"
  /\ visit = "none"
  /\ \E importPath \in ImportPaths : ImportDeclaration(importPath)

Next == LoadModule \/ CreateAny \/ ImportAny

Spec == Init /\ [][Next]_vars

\* The registry alone: module load and rule construction over every tree.
NextRegistry == LoadModule \/ CreateAny

SpecRegistry == InitRegistry /\ [][NextRegistry]_vars

\* ---------------------------------------------------------------- claims

Visited == visit # "none"

AbsoluteInternal(p) == Includes(p, rootPackageName) /\ ~isRelativeImport(p)

Elements(list) == {list[i] : i \in 1..Len(list)}

\* The directory that holds the linted file.
FileDir == Dirname(context.filename)

\* The ancestors of a directory, itself included, "/" excluded.
Ancestors(d) == {SubSeq(d, 1, n) : n \in 1..Len(d)}

\* The deepest directory of a non-empty set of ancestors, NullDir if empty.
Deepest(ds) ==
  IF ds = {} THEN NullDir
  ELSE CHOOSE d \in ds : \A e \in ds : Len(e) <= Len(d)

RegistryKeys == {p[1] : p \in packageMap}

\* The name create looked up: it threw exactly when there was none.
UsedPackage ==
  IF rule.state = "created" THEN rule.currentPackageName ELSE JsUndefined

\* The directories the registry scan enters: the project root and what is
\* below it outside node_modules.
Scanned ==
  {d \in Dirs : /\ Len(d) >= 1
                /\ d[1] = W
                /\ \A i \in 1..Len(d) : d[i] # NodeModules}

\* C1 as stated: a relative import whose resolved package differs from the
\* file's own package is reported, for every import path string.
C1_AnyRelativePathReported ==
  (/\ Visited
   /\ isRelativeImport(node)
   /\ getPackageNameFromPath(fs, node) # rule.currentPackageName)
  => Len(reports) > 0

\* C1 amended: a relative import that contains the root package name and
\* whose resolved package (null included) differs from the file's own
\* package gets exactly one report, the relative-import one, whatever allow
\* and restrict hold.
C1_RelativeBoundary ==
  (/\ Visited
   /\ Includes(node, rootPackageName)
   /\ isRelativeImport(node)
   /\ getPackageNameFromPath(fs, node) # rule.currentPackageName)
  => /\ visit = "returned"
     /\ reports = <<Report("relative", JsUndefined, JsUndefined)>>

\* The import climbs out of package "a" into the registered package "b"
\* under a policy that would let an absolute import of anything pass.
C1_Witness ==
  /\ Visited
  /\ Includes(node, rootPackageName)
  /\ isRelativeImport(node)
  /\ rule.currentPackageName = NameA
  /\ getPackageNameFromPath(fs, node) = NameB
  /\ rule.allow = Given(<<Star>>)
  /\ Len(reports) = 1

\* C2: when restrict of the source package's policy lists X, an absolute
\* internal import of "@<root>/X" or of a path beneath it is reported,
\* whatever the allow list holds.
C2_RestrictOverridesAllow ==
  (/\ Visited
   /\ AbsoluteInternal(node)
   /\ rule.allow # Omitted
   /\ rule.restrict # Omitted
   /\ \E x \in Elements(rule.restrict[1]) :
        \/ node = ScopePrefix \o x
        \/ MatchAt(node, ScopePrefix \o x \o <<"/">>, 1))
  => /\ visit = "returned"
     /\ Len(reports) > 0

\* C3: from a package that no options entry targets, every absolute import
\* passes: the visit returns and reports nothing.
C3_DefaultAllow ==
  (/\ Visited
   /\ ~isRelativeImport(node)
   /\ \A i \in 1..Len(context.options) :
        context.options[i].target # getShortPackageName(rule.currentPackageName))
  => /\ visit = "returned"
     /\ reports = <<>>

\* An internal absolute import from package "b", which the options (about
\* "a" alone) do not target.
C3_Witness ==
  /\ Visited
  /\ AbsoluteInternal(node)
  /\ node = NameA
  /\ rule.currentPackageName = NameB
  /\ \A i \in 1..Len(context.options) : context.options[i].target = A
  /\ reports = <<>>

\* C4: an import path that does not contain the root package name passes,
\* relative or absolute, under every policy.
C4_NoTokenPasses ==
  (Visited /\ ~Includes(node, rootPackageName))
  => /\ visit = "returned"
     /\ reports = <<>>

\* A relative import without the name that leaves the file's package, under
\* a policy that allows nothing.
C4_Witness ==
  /\ Visited
  /\ ~Includes(node, rootPackageName)
  /\ isRelativeImport(node)
  /\ getPackageNameFromPath(fs, node) # rule.currentPackageName
  /\ rule.allow = Given(<<>>)
  /\ reports = <<>>

\* C5: when no ancestor directory of the file is a key of the registry,
\* create completes without throwing.
C5_FailOpen ==
  (/\ rule.state # "none"
   /\ Ancestors(FileDir) \cap RegistryKeys = {})
  => rule.state = "created"

\* C6: an entry that omits allow is evaluated as allow = []: every absolute
\* internal import is reported as not in the allow-list; one that omits
\* restrict is evaluated as restrict = []: nothing is reported as
\* restricted; and the visit does not throw.
C6_OmittedListsAreEmpty ==
  (/\ Visited
   /\ AbsoluteInternal(node)
   /\ (rule.allow = Omitted \/ rule.restrict = Omitted))
  => /\ visit = "returned"
     /\ rule.allow = Omitted =>
          /\ Len(reports) = 1
          /\ reports[1].kind = "allow"
     /\ rule.restrict = Omitted =>
          \A i \in 1..Len(reports) : reports[i].kind # "restrict"

\* C7: the short name the visitor computed from the import path (quoted in
\* the allow-list report) is a fixed point of getShortPackageName, and it is
\* the path itself when the path does not start with "@<root>/".
C7_ShortNameIdempotentPrefixOnly ==
  (/\ Visited
   /\ Len(reports) = 1
   /\ reports[1].kind = "allow")
  => /\ getShortPackageName(reports[1].first) = reports[1].first
     /\ ~MatchAt(node, ScopePrefix, 1) => reports[1].first = node

\* C8: for an absolute internal import with short name s under a policy
\* {allow, restrict}, the reports are exactly: one allow-list report when s
\* is not in allow and allow has no "*", and then restrict is not read (it
\* may even be missing); otherwise one restricted report when s is in
\* restrict; otherwise none.
C8_AbsoluteDecision ==
  (/\ Visited
   /\ AbsoluteInternal(node)
   /\ rule.allow # Omitted)
  => LET s == getShortPackageName(node)
         cur == getShortPackageName(rule.currentPackageName)
         allow == Elements(rule.allow[1])
     IN IF s \notin allow /\ Star \notin allow
          THEN /\ visit = "returned"
               /\ reports = <<Report("allow", s, cur)>>
        ELSE rule.restrict # Omitted =>
               /\ visit = "returned"
               /\ reports =
                    IF s \in Elements(rule.restrict[1])
                      THEN <<Report("restrict", cur, s)>>
                      ELSE <<>>

\* The import fails the allow check and is listed in restrict as well: the
\* one report is the allow-list one.
C8_Witness ==
  /\ Visited
  /\ AbsoluteInternal(node)
  /\ rule.allow = Given(<<A>>)
  /\ rule.restrict # Omitted
  /\ getShortPackageName(node) \in Elements(rule.restrict[1])
  /\ getShortPackageName(node) # A
  /\ Len(reports) = 1
  /\ reports[1].kind = "allow"

\* C9 as stated: the package create uses is the one registered for the
\* nearest ancestor directory of the file that is a registry key.
C9_NearestRegisteredAncestor ==
  rule.state # "none"
  => UsedPackage =
       MapGet(packageMap, Deepest(Ancestors(FileDir) \cap RegistryKeys))

\* C9 amended: the package create uses is the registry's entry for the
\* nearest ancestor directory below "/" that holds a package.json,
\* registered or not; when that directory is not a key there is none, even
\* under a registered ancestor.
C9_NearestManifestAncestor ==
  rule.state # "none"
  => UsedPackage =
       MapGet(packageMap,
              Deepest({d \in Ancestors(FileDir) :
                         ManifestAt(fs, d).kind # "none"}))

\* A file below node_modules/m, which holds a manifest, inside the
\* registered package "a": create found no package.
C9_Witness ==
  /\ rule.state # "none"
  /\ FileDir = DirANMM
  /\ ManifestAt(fs, DirANMM).kind # "none"
  /\ DirA \in RegistryKeys
  /\ UsedPackage = JsUndefined

\* C10 as stated: with an unreadable or malformed non-root manifest in the
\* scanned tree the build completes, leaves that directory out and
\* registers every other package directory.
C10_BuildToleratesBadManifest ==
  (/\ loaded # "no"
   /\ \E d \in Scanned : ManifestAt(fs, d).kind = "bad")
  => /\ loaded = "yes"
     /\ \A d \in Scanned :
          /\ ManifestAt(fs, d).kind = "bad" => d \notin RegistryKeys
          /\ ManifestAt(fs, d).kind = "ok" => d \in RegistryKeys

\* C10 amended: the build throws exactly when the scan meets an unreadable
\* or malformed manifest, and then there is no registry; otherwise it
\* registers exactly the scanned directories that hold a manifest, each
\* with its declared name.
C10_BuildAbortsOnBadManifest ==
  loaded # "no"
  => /\ loaded = "threw" <=> \E d \in Scanned : ManifestAt(fs, d).kind = "bad"
     /\ loaded = "threw" => packageMap = {}
     /\ loaded = "yes" =>
          packageMap = {<<d, ManifestAt(fs, d).name>> :
                          d \in {e \in Scanned : ManifestAt(fs, e).kind = "ok"}}

\* The manifest of "a" is bad and "b" is a good package: the load threw.
C10_Witness ==
  /\ loaded = "threw"
  /\ ManifestAt(fs, DirA).kind = "bad"
  /\ ManifestAt(fs, DirB).kind = "ok"
  /\ packageMap = {}

====
